---- MODULE Spec2Model ----
(***************************************************************************)
(* Issue endpoints of apiserver/plane/app/views/issue/base.py as a state   *)
(* machine: the issue store, the activity / recently-visited task queue,   *)
(* and one action per request handler.                                     *)
(***************************************************************************)
EXTENDS Integers, Sequences, FiniteSets, TLC

\* ------------------------------------------------------------------ bounds
MaxIssues == 2
MaxClock == 2
PageSize == 1

\* ---------------------------------------------------------------- universe
Ids == 1..MaxIssues
Users == {"u1", "u2"}
Projects == {"p1", "p2"}
Slugs == {"w1", "w2"}
Names == {"a", "b"}
Absent == "absent"

\* the workspace a project lives in (workspace__slug of a row)
WorkspaceOf(p) == IF p = "p1" THEN "w1" ELSE "w2"

\* plane.app.permissions.ROLE
ROLE == [ADMIN |-> 20, MEMBER |-> 15, VIEWER |-> 10, GUEST |-> 5]

\* rows of ProjectMember: u1 administers p1 and is a guest of p2, u2 is a
\* member of p2; r is the role u2 holds in p1
MemberRows(r) ==
    { [member |-> "u1", project |-> "p1", role |-> 20, is_active |-> TRUE],
      [member |-> "u1", project |-> "p2", role |-> 5, is_active |-> TRUE],
      [member |-> "u2", project |-> "p1", role |-> r, is_active |-> TRUE],
      [member |-> "u2", project |-> "p2", role |-> 15, is_active |-> TRUE] }

VARIABLES
    issues,   \* the Issue table: id -> row, for the ids created so far
    members,  \* the ProjectMember table
    now,      \* the clock that stamps updated_at
    resp,     \* the last request and its response
    tasks,    \* the background tasks the last request dispatched, in order
    bd,       \* bulk-delete requests in flight: process -> its position
    sync,     \* a client walking the paginated sync listing
    rel,      \* the related tables: labels, assignees and modules of the issues
    props,    \* the IssueUserProperty table
    dp        \* display-property GET requests in flight: process -> its position

vars == <<issues, members, now, resp, tasks, bd, sync, rel, props, dp>>

\* ------------------------------------------------------------ the store
\* Issue.issue_objects: the default manager hides soft-deleted and draft rows
Visible(row) == ~row.deleted /\ ~row.is_draft

\* Issue.objects: hides soft-deleted rows only
Exists(row) == ~row.deleted

InProject(row, slug, p) == WorkspaceOf(row.project) = slug /\ row.project = p

\* @allow_permission(roles): an active membership of the project with one of the roles
Allowed(user, slug, p, roles) ==
    \E m \in members :
        /\ m.member = user
        /\ m.project = p
        /\ WorkspaceOf(m.project) = slug
        /\ m.role \in roles
        /\ m.is_active

\* @allow_permission(roles, creator=True, model=Issue): the creator of pk passes too
AllowedOrCreator(st, user, slug, p, roles, pk) ==
    \/ (pk \in DOMAIN st /\ st[pk].created_by = user)
    \/ Allowed(user, slug, p, roles)

\* IssueViewSet.get_queryset / IssuePaginatedViewSet.get_queryset: ids of the rows
GetQuerysetOfWorkspace(st, slug, p) ==
    {i \in DOMAIN st : Visible(st[i])}

GetQueryset(st, slug, p) ==
    {i \in DOMAIN st : Visible(st[i]) /\ st[i].project = p
                       /\ WorkspaceOf(st[i].project) = slug}

\* ------------------------------------------------------- requests, tasks
\* the request line and the Response(...) a handler returns
R(op, user, slug, p, status, body) ==
    [op |-> op, user |-> user, slug |-> slug, project |-> p,
     status |-> status, body |-> body]

\* an argument list handed to <task>.delay(...)
Task(name, type, id, current) ==
    [task |-> name, type |-> type, issue_id |-> id, current_instance |-> current]

\* request.data of create / partial_update; "" is a blank name
Payloads == [name : Names \cup {Absent, ""}, is_draft : {Absent, "true", "false"}]

\* IssueCreateSerializer(data=...).is_valid(): name is required and not blank
IsValidCreate(d) == d.name \in Names

\* IssueCreateSerializer(issue, data=..., partial=True).is_valid()
IsValidPartial(d) == d.name # ""

\* serializer.save() of create: the new row
NewRow(user, p, d, t) ==
    [project |-> p, created_by |-> user, name |-> d.name,
     is_draft |-> (d.is_draft = "true"), deleted |-> FALSE, updated_at |-> t]

\* serializer.save() of partial_update: only the fields present change
SavedRow(row, d, t) ==
    [row EXCEPT !.name = IF d.name = Absent THEN @ ELSE d.name,
                !.is_draft = IF d.is_draft = Absent THEN @ ELSE (d.is_draft = "true"),
                !.updated_at = t]

Put(st, id, row) == [i \in DOMAIN st \cup {id} |-> IF i = id THEN row ELSE st[i]]

\* -------------------------------------------------------- the annotations
Labels == {"l1"}
Modules == {"m1"}
NULL == "null"

\* the related tables of a store in which no issue has a label, an assignee
\* or a module, and no module is archived
NoRelations ==
    [labels |-> [i \in Ids |-> {}], assignees |-> [i \in Ids |-> {}],
     modules |-> [i \in Ids |-> {}], archived |-> {}]

\* a LEFT OUTER JOIN: a side without rows contributes one row of NULLs
LeftJoin(S, nulls) == IF S = {} THEN {nulls} ELSE S

\* the rows the annotated query aggregates for issue i: the issue joined with
\* its labels, with its assignees and every project membership of each
\* assignee (assignees__member_project), and with its modules
JoinRows(rl, mem, i) ==
    LET ls == LeftJoin(rl.labels[i], NULL)
        as == LeftJoin(
                  UNION { LeftJoin({<<u, IF m.is_active THEN "true" ELSE "false">> :
                                       m \in {x \in mem : x.member = u}},
                                   <<u, NULL>>) : u \in rl.assignees[i] },
                  <<NULL, NULL>>)
        ms == LeftJoin({<<m, IF m \in rl.archived THEN "archived" ELSE NULL>> :
                           m \in rl.modules[i]},
                       <<NULL, NULL>>)
    IN  { [labels__id |-> l,
           assignees__id |-> a[1],
           assignees__member_project__is_active |-> a[2],
           issue_module__module_id |-> m[1],
           issue_module__module__archived_at |-> m[2]] :
             l \in ls, a \in as, m \in ms }

\* the rows of a set in the order the database answers with
RECURSIVE RowsOf(_)
RowsOf(S) ==
    IF S = {} THEN <<>>
    ELSE LET x == CHOOSE y \in S : TRUE IN <<x>> \o RowsOf(S \ {x})

\* distinct=True: the first occurrence of every value
RECURSIVE Distinct(_)
Distinct(s) ==
    IF s = <<>> THEN <<>>
    ELSE LET rest == Distinct(Tail(s))
         IN  IF \E k \in DOMAIN rest : rest[k] = Head(s)
               THEN rest ELSE <<Head(s)>> \o rest

\* ArrayAgg(col, distinct=True, filter=...) over the rows that pass the
\* filter: the array of the column, and SQL NULL when no row passes
ArrayAgg(kept, col) ==
    [null |-> Len(kept) = 0,
     array |-> Distinct([k \in 1..Len(kept) |-> kept[k][col]])]

\* Coalesce(aggregate, Value([]))
Coalesce(agg, default) == IF agg.null THEN default ELSE agg.array

\* label_ids, as retrieve, partial_update and the sync listing annotate it
LabelIds(rows) ==
    Coalesce(ArrayAgg(SelectSeq(rows, LAMBDA r : r.labels__id # NULL),
                      "labels__id"),
             <<>>)

\* assignee_ids, as retrieve, partial_update and the sync listing annotate it
AssigneeIds(rows) ==
    Coalesce(ArrayAgg(SelectSeq(rows,
                          LAMBDA r : /\ r.assignees__id # NULL
                                     /\ r.assignees__member_project__is_active = "true"),
                      "assignees__id"),
             <<>>)

\* module_ids, as retrieve and the sync listing annotate it
ModuleIds(rows) ==
    Coalesce(ArrayAgg(SelectSeq(rows,
                          LAMBDA r : /\ r.issue_module__module_id # NULL
                                     /\ r.issue_module__module__archived_at = NULL),
                      "issue_module__module_id"),
             <<>>)

\* module_ids, as partial_update annotates it
ModuleIdsOfUpdate(rows) ==
    Coalesce(ArrayAgg(SelectSeq(rows, LAMBDA r : r.issue_module__module_id # NULL),
                      "issue_module__module_id"),
             <<>>)

\* the annotations of retrieve
RetrieveAnnotations(rl, mem, i) ==
    LET rows == RowsOf(JoinRows(rl, mem, i))
    IN  [label_ids |-> LabelIds(rows), assignee_ids |-> AssigneeIds(rows),
         module_ids |-> ModuleIds(rows)]

\* the annotations of partial_update
UpdateAnnotations(rl, mem, i) ==
    LET rows == RowsOf(JoinRows(rl, mem, i))
    IN  [label_ids |-> LabelIds(rows), assignee_ids |-> AssigneeIds(rows),
         module_ids |-> ModuleIdsOfUpdate(rows)]

\* the annotations of IssuePaginatedViewSet.list
SyncAnnotations(rl, mem, i) ==
    LET rows == RowsOf(JoinRows(rl, mem, i))
    IN  [label_ids |-> LabelIds(rows), assignee_ids |-> AssigneeIds(rows),
         module_ids |-> ModuleIds(rows)]

\* ------------------------------------------------------ IssueViewSet.create
Create(user, slug, p, d, id, ok, crash) ==
    /\ id \in Ids \ DOMAIN issues
    /\ IF ~Allowed(user, slug, p, {ROLE.ADMIN, ROLE.MEMBER})
         THEN /\ resp' = R("create", user, slug, p, 403, {})
              /\ tasks' = <<>>
              /\ UNCHANGED issues
         ELSE IF ~IsValidCreate(d)
         THEN /\ resp' = R("create", user, slug, p, 400, {})
              /\ tasks' = <<>>
              /\ UNCHANGED issues
         ELSE
              /\ issues' = Put(issues, id, NewRow(user, p, d, now))
              /\ IF ~ok
                   THEN \* issue_activity.delay raises: nothing is caught
                        /\ tasks' = <<>>
                        /\ resp' = R("create", user, slug, p, 500, {})
                                       @@ [pk |-> id, raised |-> "issue_activity.delay"]
                   ELSE /\ tasks' = <<Task("issue_activity", "issue.activity.created",
                                           id, <<>>)>>
                        /\ LET back == GetQueryset(issues', slug, p) \cap {id}
                           IN  resp' = IF back = {} /\ crash
                                         THEN R("create", user, slug, p, 500, {})
                                                  @@ [pk |-> id, raised |->
                                                        "user_timezone_converter"]
                                         ELSE R("create", user, slug, p, 201, back)
                                                  @@ [pk |-> id]
    /\ UNCHANGED <<members, now, bd, sync, rel, props, dp>>

\* ---------------------------------------------- IssueViewSet.partial_update
PartialUpdate(user, slug, p, pk, d, ok) ==
    /\ IF ~Allowed(user, slug, p, {ROLE.ADMIN, ROLE.MEMBER, ROLE.GUEST})
         THEN /\ resp' = R("partial_update", user, slug, p, 403, {}) @@ [pk |-> pk]
              /\ tasks' = <<>>
              /\ UNCHANGED issues
         ELSE IF pk \notin GetQueryset(issues, slug, p)
         THEN /\ resp' = R("partial_update", user, slug, p, 404, {}) @@ [pk |-> pk]
              /\ tasks' = <<>>
              /\ UNCHANGED issues
         ELSE IF ~IsValidPartial(d)
         THEN /\ resp' = R("partial_update", user, slug, p, 400, {}) @@ [pk |-> pk]
              /\ tasks' = <<>>
              /\ UNCHANGED issues
         ELSE
              /\ issues' = Put(issues, pk, SavedRow(issues[pk], d, now))
              /\ IF ~ok
                   THEN /\ tasks' = <<>>
                        /\ resp' = R("partial_update", user, slug, p, 500, {})
                                       @@ [pk |-> pk, raised |-> "issue_activity.delay"]
                   ELSE /\ tasks' = <<Task("issue_activity", "issue.activity.updated",
                                           pk, <<issues[pk]>>)>>
                        /\ resp' = R("partial_update", user, slug, p, 204, {})
                                       @@ [pk |-> pk,
                                           \* the annotated issue that is serialized
                                           \* into current_instance
                                           ann |-> UpdateAnnotations(rel, members, pk)]
    /\ UNCHANGED <<members, now, bd, sync, rel, props, dp>>

\* ----------------------------------------------------- IssueViewSet.destroy
Destroy(user, slug, p, pk, ok) ==
    /\ IF ~AllowedOrCreator(issues, user, slug, p, {ROLE.ADMIN}, pk)
         THEN /\ resp' = R("destroy", user, slug, p, 403, {}) @@ [pk |-> pk]
              /\ tasks' = <<>>
              /\ UNCHANGED issues
         ELSE IF ~(pk \in DOMAIN issues /\ Exists(issues[pk])
                   /\ InProject(issues[pk], slug, p))
         THEN \* Issue.objects.get raises DoesNotExist
              /\ resp' = R("destroy", user, slug, p, 404, {}) @@ [pk |-> pk]
              /\ tasks' = <<>>
              /\ UNCHANGED issues
         ELSE
              /\ issues' = Put(issues, pk, [issues[pk] EXCEPT !.deleted = TRUE])
              /\ IF ~ok
                   THEN /\ tasks' = <<>>
                        /\ resp' = R("destroy", user, slug, p, 500, {})
                                       @@ [pk |-> pk, raised |-> "issue_activity.delay"]
                   ELSE /\ tasks' = <<Task("issue_activity", "issue.activity.deleted",
                                           pk, <<>>)>>
                        /\ resp' = R("destroy", user, slug, p, 204, {}) @@ [pk |-> pk]
    /\ UNCHANGED <<members, now, bd, sync, rel, props, dp>>

\* ---------------------------------------------------- IssueViewSet.retrieve
Retrieve(user, slug, p, pk, ok) ==
    /\ IF ~AllowedOrCreator(issues, user, slug, p,
                            {ROLE.ADMIN, ROLE.MEMBER, ROLE.VIEWER}, pk)
         THEN /\ resp' = R("retrieve", user, slug, p, 403, {}) @@ [pk |-> pk]
              /\ tasks' = <<>>
         ELSE IF pk \notin GetQueryset(issues, slug, p)
         THEN /\ resp' = R("retrieve", user, slug, p, 404, {}) @@ [pk |-> pk]
              /\ tasks' = <<>>
         ELSE IF ~ok
         THEN /\ resp' = R("retrieve", user, slug, p, 500, {})
                           @@ [pk |-> pk, raised |-> "recent_visited_task.delay"]
              /\ tasks' = <<>>
         ELSE /\ tasks' = <<Task("recent_visited_task", "issue", pk, <<>>)>>
              /\ resp' = R("retrieve", user, slug, p, 200, {pk})
                             @@ [pk |-> pk,
                                 ann |-> RetrieveAnnotations(rel, members, pk)]
    /\ UNCHANGED <<issues, members, now, bd, sync, rel, props, dp>>

\* ------------------------------------------------------------ listing
\* request.GET.get(name, False): absent, supplied empty, or a field name
GroupParams == {Absent, "", "created_by", "project_id"}

\* Python truthiness of a query parameter
Truthy(x) == x \notin {Absent, ""}

\* the created_by query parameter of issue_filters: absent, or a user
FilterParams == {Absent} \cup Users

\* issue_filters(request.query_params, "GET") applied with .filter(**filters)
Matches(row, flt) == flt = Absent \/ row.created_by = flt

\* issue_queryset_grouper(queryset, group_by, sub_group_by): annotates the rows
\* with label_ids / assignee_ids / module_ids; the rows stay the same (create
\* calls it with both arguments None)
IssueQuerysetGrouper(qs, gb, sgb) == qs

\* ProjectMember.objects.filter(workspace__slug=slug, project_id=project_id,
\*     member=request.user, role=5, is_active=True).exists()
IsGuestOfAnyProject(user, slug, p) ==
    \E m \in members :
        /\ m.member = user
        /\ m.role = 5
        /\ m.is_active

IsGuest(user, slug, p) ==
    \E m \in members :
        /\ WorkspaceOf(m.project) = slug
        /\ m.project = p
        /\ m.member = user
        /\ m.role = 5
        /\ m.is_active

\* the queryset IssueViewSet.list hands to the paginator
ListQueryset(st, user, slug, p, flt, gb, sgb) ==
    LET filtered == {i \in GetQueryset(st, slug, p) : Matches(st[i], flt)}
        grouped == IssueQuerysetGrouper(filtered, gb, sgb)
    IN  IF IsGuest(user, slug, p)
          THEN {i \in grouped : st[i].created_by = user}
          ELSE grouped

\* the value of the grouping field of a row
FieldOf(row, field) == IF field = "created_by" THEN row.created_by ELSE row.project

\* self.paginate(...): the first page; flat rows carry "-" as their group key,
\* grouped rows their group, sub-grouped rows their group and sub-group
Paginate(st, qs, gb, sgb) ==
    IF Truthy(gb)
      THEN IF Truthy(sgb)
             THEN {<<FieldOf(st[i], gb), FieldOf(st[i], sgb), i>> : i \in qs}
             ELSE {<<FieldOf(st[i], gb), "-", i>> : i \in qs}
      ELSE {<<"-", "-", i>> : i \in qs}

\* -------------------------------------------------------- IssueViewSet.list
List(user, slug, p, flt, gb, sgb, ok) ==
    LET q == [flt |-> flt, gb |-> gb, sgb |-> sgb]
        visited == Task("recent_visited_task", "project", 0, <<>>)
    IN
    /\ IF ~Allowed(user, slug, p,
                   {ROLE.ADMIN, ROLE.MEMBER, ROLE.VIEWER, ROLE.GUEST})
         THEN /\ resp' = R("list", user, slug, p, 403, {}) @@ q @@ [queries |-> <<>>]
              /\ tasks' = <<>>
         ELSE IF ~ok
         THEN \* recent_visited_task.delay raises
              /\ resp' = R("list", user, slug, p, 500, {}) @@ q
                             @@ [queries |-> <<>>, raised |-> "recent_visited_task.delay"]
              /\ tasks' = <<>>
         ELSE
              /\ tasks' = <<visited>>
              /\ LET qs == ListQueryset(issues, user, slug, p, flt, gb, sgb)
                 IN  IF Truthy(gb) /\ Truthy(sgb) /\ gb = sgb
                       THEN resp' = R("list", user, slug, p, 400, {}) @@ q
                                      @@ [queries |-> <<"ProjectMember.exists">>]
                       ELSE resp' = R("list", user, slug, p, 200,
                                      Paginate(issues, qs, gb, sgb)) @@ q
                                      @@ [queries |-> <<"ProjectMember.exists",
                                                        "paginate">>]
    /\ UNCHANGED <<issues, members, now, bd, sync, rel, props, dp>>

\* ------------------------------------------------- IssueListEndpoint.get
\* the issues query parameter: given is FALSE when it is absent or empty
IssuesParams == [given : BOOLEAN, ids : SUBSET Ids]

ListEndpointGet(user, slug, p, ip, flt, gb, sgb, fe, ok) ==
    LET q == [flt |-> flt, gb |-> gb, sgb |-> sgb, fe |-> fe]
        visited == Task("recent_visited_task", "project", 0, <<>>)
        queryset == GetQueryset(issues, slug, p) \cap ip.ids
        issue_queryset == IssueQuerysetGrouper(
                              {i \in queryset : Matches(issues[i], flt)}, gb, sgb)
    IN
    /\ ip.given \/ ip.ids = {}
    /\ IF ~Allowed(user, slug, p,
                   {ROLE.ADMIN, ROLE.MEMBER, ROLE.VIEWER, ROLE.GUEST})
         THEN /\ resp' = R("get", user, slug, p, 403, {}) @@ q
              /\ tasks' = <<>>
         ELSE IF ~ip.given
         THEN /\ resp' = R("get", user, slug, p, 400, {}) @@ q
              /\ tasks' = <<>>
         ELSE IF ~ok
         THEN /\ resp' = R("get", user, slug, p, 500, {}) @@ q
                             @@ [raised |-> "recent_visited_task.delay"]
              /\ tasks' = <<>>
         ELSE /\ tasks' = <<visited>>
              /\ resp' = R("get", user, slug, p, 200,
                           IF fe THEN queryset ELSE issue_queryset) @@ q
    /\ UNCHANGED <<issues, members, now, bd, sync, rel, props, dp>>

\* ------------------------------------------- BulkDeleteIssuesEndpoint.delete
BulkProcs == {"b1", "b2"}

BulkIdle ==
    [pc |-> "idle", user |-> "u1", slug |-> "w1", project |-> "p1",
     given |-> FALSE, ids |-> {}, total |-> 0, target |-> {}, status |-> 0]

\* Issue.issue_objects.filter(workspace__slug=slug, project_id=project_id,
\*     pk__in=issue_ids), evaluated against the store st
Matching(st, slug, p, ids) == GetQueryset(st, slug, p) \cap ids

BulkRemoveFirst(st, target) ==
    [i \in DOMAIN st |->
        IF target # {} /\ i = CHOOSE m \in target : \A k \in target : m <= k
          THEN [st[i] EXCEPT !.deleted = TRUE]
          ELSE st[i]]

\* issues.delete(): one statement over every matching row
BulkRemove(st, target) ==
    [i \in DOMAIN st |->
        IF i \in target THEN [st[i] EXCEPT !.deleted = TRUE] ELSE st[i]]

BulkAcceptsGiven(ip) == ip.given

\* not len(issue_ids) is the validation error: the list must have an element
BulkAccepts(ip) == Cardinality(ip.ids) # 0

\* the request up to total_issues = len(issues)
BulkBegin(b, user, slug, p, ip) ==
    LET r == [BulkIdle EXCEPT !.user = user, !.slug = slug, !.project = p,
                              !.given = ip.given, !.ids = ip.ids]
    IN
    /\ bd[b].pc \in {"idle", "done"}
    /\ ip.given \/ ip.ids = {}
    /\ IF ~Allowed(user, slug, p, {ROLE.ADMIN})
         THEN bd' = [bd EXCEPT ![b] = [r EXCEPT !.pc = "done", !.status = 403]]
         ELSE IF ~BulkAccepts(ip)
         THEN bd' = [bd EXCEPT ![b] = [r EXCEPT !.pc = "done", !.status = 400]]
         ELSE bd' = [bd EXCEPT ![b] =
                        [r EXCEPT !.pc = "counted",
                                  !.total = Cardinality(
                                      Matching(issues, slug, p, ip.ids))]]
    /\ UNCHANGED <<issues, members, now, resp, tasks, sync, rel, props, dp>>

\* issues.delete() and the response
BulkDelete(b) ==
    LET target == Matching(issues, bd[b].slug, bd[b].project, bd[b].ids)
    IN
    /\ bd[b].pc = "counted"
    /\ issues' = BulkRemove(issues, target)
    /\ bd' = [bd EXCEPT ![b] = [@ EXCEPT !.pc = "done", !.status = 200,
                                         !.target = target]]
    /\ UNCHANGED <<members, now, resp, tasks, sync, rel, props, dp>>

\* ------------------------------------------------ IssuePaginatedViewSet.list
\* the updated_at__gte query parameter; -1 stands for its absence
SinceParams == -1..MaxClock

SyncQuerysetAfter(st, slug, p, since) ==
    {i \in GetQueryset(st, slug, p) : since = -1 \/ st[i].updated_at > since}

\* queryset / base_queryset: the visible rows of the project, filtered by
\* updated_at__gte when the parameter is given
SyncQueryset(st, slug, p, since) ==
    {i \in GetQueryset(st, slug, p) : since = -1 \/ st[i].updated_at >= since}

\* .order_by("updated_at"): every row order the store may answer with; rows
\* with the same updated_at come in any order
OrderByUpdatedAt(st, ids) ==
    {s \in [1..Cardinality(ids) -> ids] :
        /\ \A j, k \in DOMAIN s : j # k => s[j] # s[k]
        /\ \A j, k \in DOMAIN s : j < k => st[s[j]].updated_at <= st[s[k]].updated_at}

\* the position of a row in the cursor order: (updated_at, id)
Key(st, i) == <<st[i].updated_at, i>>

KeyLess(a, b) == a[1] < b[1] \/ (a[1] = b[1] /\ a[2] < b[2])

\* a cursor is <<>> (the start) or the key of the last row seen
After(st, i, cursor) == cursor = <<>> \/ KeyLess(cursor, Key(st, i))

Min(a, b) == IF a < b THEN a ELSE b

\* paginate(base_queryset, queryset, cursor, on_result): the page after the
\* cursor in (updated_at, id) order, the cursor of its last row and whether
\* rows remain after it
CursorPaginate(st, base, rows, cursor) ==
    LET ahead == {rows[k] : k \in {j \in DOMAIN rows : After(st, rows[j], cursor)}}
        sorted == CHOOSE s \in [1..Cardinality(ahead) -> ahead] :
                      \A j, k \in DOMAIN s : j < k => KeyLess(Key(st, s[j]), Key(st, s[k]))
        n == Min(PageSize, Cardinality(ahead))
        page == [k \in 1..n |-> <<sorted[k], st[sorted[k]].updated_at>>]
        last == IF n = 0 THEN cursor ELSE Key(st, sorted[n])
    IN  [results |-> page,
         next_cursor |-> last,
         next_page_results |-> \E i \in base : After(st, i, last),
         total_count |-> Cardinality(base)]

SyncIdle ==
    [pc |-> "idle", user |-> "u1", slug |-> "w1", project |-> "p1", since |-> -1,
     cursor |-> <<>>, out |-> <<>>, last |-> <<>>, again |-> {}, ann |-> <<>>]

\* a client starts at the first page
SyncStart(user, slug, p, since) ==
    /\ sync.pc \in {"idle", "done"}
    /\ Allowed(user, slug, p, {ROLE.ADMIN, ROLE.MEMBER, ROLE.VIEWER, ROLE.GUEST})
    /\ sync' = [SyncIdle EXCEPT !.pc = "walking", !.user = user, !.slug = slug,
                                !.project = p, !.since = since]
    /\ UNCHANGED <<issues, members, now, resp, tasks, bd, rel, props, dp>>

\* one request with the client's cursor; the client follows next_cursor
SyncFetch ==
    /\ sync.pc = "walking"
    /\ \E rows \in OrderByUpdatedAt(issues,
                      SyncQueryset(issues, sync.slug, sync.project, sync.since)) :
          LET base == SyncQueryset(issues, sync.slug, sync.project, sync.since)
              pg == CursorPaginate(issues, base, rows, sync.cursor)
          IN  sync' = [sync EXCEPT
                         !.out = @ \o pg.results,
                         !.last = <<sync.cursor, pg.results>>,
                         !.again = {},
                         \* the annotations of the rows of this page
                         !.ann = [k \in DOMAIN pg.results |->
                                     SyncAnnotations(rel, members, pg.results[k][1])],
                         !.cursor = pg.next_cursor,
                         !.pc = IF pg.next_page_results THEN "walking" ELSE "done"]
    /\ UNCHANGED <<issues, members, now, resp, tasks, bd, rel, props, dp>>

\* the client re-issues the cursor of its last request
SyncRefetch ==
    /\ sync.pc \in {"walking", "done"}
    /\ sync.last # <<>>
    /\ \E rows \in OrderByUpdatedAt(issues,
                      SyncQueryset(issues, sync.slug, sync.project, sync.since)) :
          LET base == SyncQueryset(issues, sync.slug, sync.project, sync.since)
              pg == CursorPaginate(issues, base, rows, sync.last[1])
          IN  sync' = [sync EXCEPT !.again = @ \cup {pg.results}]
    /\ UNCHANGED <<issues, members, now, resp, tasks, bd, rel, props, dp>>

\* time passes
Tick ==
    /\ now < MaxClock
    /\ now' = now + 1
    /\ UNCHANGED <<issues, members, resp, tasks, bd, sync, rel, props, dp>>

\* the project-membership endpoints change the role u2 holds in p1
ChangeRole(r) ==
    /\ r \in {ROLE.MEMBER, ROLE.GUEST}
    /\ members # MemberRows(r)
    /\ members' = MemberRows(r)
    /\ UNCHANGED <<issues, now, resp, tasks, bd, sync, rel, props, dp>>

\* ------------------------------------------ IssueUserDisplayPropertyEndpoint
PropProcs == {"g1", "g2"}

\* the value a field of a new IssueUserProperty row starts with
Default == "default"

\* request.data of patch: each of the three fields absent or given
PropPayloads ==
    [filters : {Absent, "x"}, display_filters : {Absent, "x"},
     display_properties : {Absent, "x"}]

\* IssueUserProperty.objects.filter(user=user, project_id=project_id)
PropsOf(tbl, user, p) == {r \in tbl : r.user = user /\ r.project = p}

\* the row get_or_create inserts: the defaults of the model
DefaultProps(tbl, user, p) ==
    [rid |-> Cardinality(PropsOf(tbl, user, p)) + 1, user |-> user, project |-> p,
     filters |-> Default, display_filters |-> Default, display_properties |-> Default]

\* the unique constraint of IssueUserProperty on (user, project): an INSERT of
\* a second row for the pair fails with IntegrityError
UniqueUserProject(tbl, user, p) == PropsOf(tbl, user, p) = {}

PatchFieldAlways(d, key, current) == d[key]

\* request.data.get(key, current)
PatchField(d, key, current) == IF d[key] = Absent THEN current ELSE d[key]

\* IssueUserDisplayPropertyEndpoint.patch
PropsPatch(user, slug, p, d) ==
    /\ IF ~Allowed(user, slug, p,
                   {ROLE.ADMIN, ROLE.MEMBER, ROLE.GUEST, ROLE.VIEWER})
         THEN /\ resp' = R("props.patch", user, slug, p, 403, {})
              /\ UNCHANGED props
         ELSE IF Cardinality(PropsOf(props, user, p)) # 1
         THEN \* IssueUserProperty.objects.get raises DoesNotExist (or
              \* MultipleObjectsReturned)
              /\ resp' = R("props.patch", user, slug, p, 404, {})
              /\ UNCHANGED props
         ELSE LET issue_property == CHOOSE r \in PropsOf(props, user, p) : TRUE
                  saved == [issue_property EXCEPT
                               !.filters = PatchField(d, "filters", @),
                               !.display_filters = PatchField(d, "display_filters", @),
                               !.display_properties =
                                   PatchField(d, "display_properties", @)]
              IN  /\ props' = (props \ {issue_property}) \cup {saved}
                  /\ resp' = R("props.patch", user, slug, p, 201, {saved.rid})
    /\ tasks' = <<>>
    /\ UNCHANGED <<issues, members, now, bd, sync, rel, dp>>

PropIdle ==
    [pc |-> "idle", user |-> "u1", slug |-> "w1", project |-> "p1",
     status |-> 0, rid |-> 0, created |-> FALSE, conflict |-> FALSE]

\* IssueUserDisplayPropertyEndpoint.get up to the SELECT of get_or_create
PropsGetBegin(g, user, slug, p) ==
    LET r == [PropIdle EXCEPT !.user = user, !.slug = slug, !.project = p]
    IN
    /\ dp[g].pc \in {"idle", "done"}
    /\ IF ~Allowed(user, slug, p,
                   {ROLE.ADMIN, ROLE.MEMBER, ROLE.GUEST, ROLE.VIEWER})
         THEN dp' = [dp EXCEPT ![g] = [r EXCEPT !.pc = "done", !.status = 403]]
         ELSE IF PropsOf(props, user, p) # {}
         THEN dp' = [dp EXCEPT ![g] =
                        [r EXCEPT !.pc = "done", !.status = 200,
                                  !.rid = (CHOOSE x \in PropsOf(props, user, p) :
                                              TRUE).rid]]
         ELSE dp' = [dp EXCEPT ![g] = [r EXCEPT !.pc = "missed"]]
    /\ UNCHANGED <<issues, members, now, resp, tasks, bd, sync, rel, props>>

\* the INSERT of get_or_create after the SELECT found nothing; when it fails
\* with IntegrityError the row that is there is fetched instead
PropsGetCreate(g) ==
    LET user == dp[g].user
        p == dp[g].project
        row == DefaultProps(props, user, p)
    IN
    /\ dp[g].pc = "missed"
    /\ IF UniqueUserProject(props, user, p)
         THEN /\ props' = props \cup {row}
              /\ dp' = [dp EXCEPT ![g] = [@ EXCEPT !.pc = "done", !.status = 200,
                                                   !.rid = row.rid, !.created = TRUE]]
         ELSE /\ UNCHANGED props
              /\ dp' = [dp EXCEPT ![g] =
                           [@ EXCEPT !.pc = "done", !.status = 200,
                                     !.rid = (CHOOSE x \in PropsOf(props, user, p) :
                                                 TRUE).rid,
                                     !.conflict = TRUE]]
    /\ UNCHANGED <<issues, members, now, resp, tasks, bd, sync, rel>>

\* ------------------------------------------- the related tables change
\* a label is attached to an issue
AddLabel(i, l) ==
    /\ i \in DOMAIN issues
    /\ l \notin rel.labels[i]
    /\ rel' = [rel EXCEPT !.labels[i] = @ \cup {l}]
    /\ UNCHANGED <<issues, members, now, resp, tasks, bd, sync, props, dp>>

\* a user is assigned to an issue
Assign(i, u) ==
    /\ i \in DOMAIN issues
    /\ u \notin rel.assignees[i]
    /\ rel' = [rel EXCEPT !.assignees[i] = @ \cup {u}]
    /\ UNCHANGED <<issues, members, now, resp, tasks, bd, sync, props, dp>>

\* an issue is added to a module
AddToModule(i, m) ==
    /\ i \in DOMAIN issues
    /\ m \notin rel.modules[i]
    /\ rel' = [rel EXCEPT !.modules[i] = @ \cup {m}]
    /\ UNCHANGED <<issues, members, now, resp, tasks, bd, sync, props, dp>>

\* a module is archived (its archived_at is set)
ArchiveModule(m) ==
    /\ m \notin rel.archived
    /\ rel' = [rel EXCEPT !.archived = @ \cup {m}]
    /\ UNCHANGED <<issues, members, now, resp, tasks, bd, sync, props, dp>>

\* a project membership is deactivated or reactivated
SetActive(u, p, a) ==
    /\ \E m \in members : m.member = u /\ m.project = p /\ m.is_active # a
    /\ members' = {IF m.member = u /\ m.project = p
                     THEN [m EXCEPT !.is_active = a] ELSE m : m \in members}
    /\ UNCHANGED <<issues, now, resp, tasks, bd, sync, rel, props, dp>>

\* ------------------------------------------------------------ behaviours
Init ==
    /\ issues = [i \in {} |-> 0]
    /\ members = MemberRows(ROLE.MEMBER)
    /\ now = 0
    /\ resp = R("none", "u1", "w1", "p1", 0, {})
    /\ tasks = <<>>
    /\ bd = [b \in BulkProcs |-> BulkIdle]
    /\ sync = SyncIdle
    /\ rel = NoRelations
    /\ props = {}
    /\ dp = [g \in PropProcs |-> PropIdle]

\* the payloads the requests below carry
CreatePayloads == [name : {"a", ""}, is_draft : {Absent, "true"}]
UpdatePayloads == [name : {Absent, "b", ""}, is_draft : {Absent, "true"}]

\* the requests on project p1: create, update, delete, retrieve and list, each
\* with its task dispatch succeeding or failing
Next ==
    \/ \E u \in Users, d \in CreatePayloads, id \in Ids,
          ok \in BOOLEAN, crash \in BOOLEAN : Create(u, "w1", "p1", d, id, ok, crash)
    \/ \E u \in Users, pk \in Ids, d \in UpdatePayloads, ok \in BOOLEAN :
          PartialUpdate(u, "w1", "p1", pk, d, ok)
    \/ \E u \in Users, pk \in Ids, ok \in BOOLEAN : Destroy(u, "w1", "p1", pk, ok)
    \/ \E u \in Users, pk \in Ids, ok \in BOOLEAN : Retrieve(u, "w1", "p1", pk, ok)
    \/ \E u \in Users, ok \in BOOLEAN : List(u, "w1", "p1", Absent, Absent, Absent, ok)
    \/ \E r \in {ROLE.MEMBER, ROLE.GUEST} : ChangeRole(r)

Spec == Init /\ [][Next]_vars

\* group_by / sub_group_by as the listing requests below carry them
GroupPairs ==
    { <<Absent, Absent>>, <<"created_by", Absent>>, <<Absent, "created_by">>,
      <<"created_by", "project_id">>, <<"created_by", "created_by">>, <<"", "">> }

\* created_by filter, group_by, sub_group_by and the fields/expand option as
\* the requests of IssueListEndpoint.get below carry them
GetQueries ==
    { <<Absent, Absent, Absent, FALSE>>, <<"u2", Absent, Absent, FALSE>>,
      <<"u2", Absent, Absent, TRUE>>, <<Absent, "created_by", "created_by", FALSE>> }

\* issues are created in both projects (some as drafts), u2's role in p1
\* changes, and p1 is listed through IssueViewSet.list and IssueListEndpoint.get
NextList ==
    \/ \E u \in Users, p \in Projects, dr \in {Absent, "true"}, id \in Ids :
          Create(u, WorkspaceOf(p), p, [name |-> "a", is_draft |-> dr], id, TRUE, FALSE)
    \/ \E r \in {ROLE.MEMBER, ROLE.GUEST} : ChangeRole(r)
    \/ \E u \in Users, f \in {Absent, "u2"}, gp \in GroupPairs :
          List(u, "w1", "p1", f, gp[1], gp[2], TRUE)
    \/ \E u \in Users : List(u, "w1", "p1", Absent, Absent, Absent, FALSE)
    \/ \E ip \in {x \in IssuesParams : x.given \/ x.ids = {}}, q \in GetQueries :
          ListEndpointGet("u2", "w1", "p1", ip, q[1], q[2], q[3], q[4], TRUE)
    \/ ListEndpointGet("u2", "w1", "p1", [given |-> TRUE, ids |-> Ids],
                       Absent, Absent, Absent, FALSE, FALSE)

SpecList == Init /\ [][NextList]_vars

\* two bulk-delete requests on p1 run step by step (b2 names every id or none)
\* while issues are created in both projects, turned into drafts and deleted
\* one at a time
NextBulk ==
    \/ \E id \in Ids :
          Create("u1", "w1", "p1", [name |-> "a", is_draft |-> Absent], id, TRUE, FALSE)
    \/ \E id \in Ids :
          Create("u2", "w2", "p2", [name |-> "a", is_draft |-> Absent], id, TRUE, FALSE)
    \/ \E pk \in Ids :
          PartialUpdate("u1", "w1", "p1", pk, [name |-> Absent, is_draft |-> "true"], TRUE)
    \/ \E pk \in Ids : Destroy("u1", "w1", "p1", pk, TRUE)
    \/ \E ip \in IssuesParams : BulkBegin("b1", "u1", "w1", "p1", ip)
    \/ BulkBegin("b1", "u2", "w1", "p1", [given |-> FALSE, ids |-> {}])
    \/ \E ip \in {[given |-> TRUE, ids |-> Ids], [given |-> FALSE, ids |-> {}]} :
          BulkBegin("b2", "u1", "w1", "p1", ip)
    \/ \E b \in BulkProcs : BulkDelete(b)

SpecBulk == Init /\ [][NextBulk]_vars

\* the writes that run beside a walk of the sync listing: issues created in
\* both projects and an update that touches an issue of p1
SyncWrite ==
    \/ \E id \in Ids :
          Create("u1", "w1", "p1", [name |-> "a", is_draft |-> Absent], id, TRUE, FALSE)
    \/ \E id \in Ids :
          Create("u2", "w2", "p2", [name |-> "a", is_draft |-> Absent], id, TRUE, FALSE)
    \/ \E pk \in Ids :
          PartialUpdate("u1", "w1", "p1", pk, [name |-> Absent, is_draft |-> Absent], TRUE)
    \/ Tick

\* a client walks the sync listing of p1 while the writes go on
NextSync ==
    \/ SyncWrite
    \/ \E since \in {-1, 1} : SyncStart("u1", "w1", "p1", since)
    \/ SyncFetch

SpecSync == Init /\ [][NextSync]_vars

\* the writes stop before the client starts; the client may re-issue a cursor
NextQuiet ==
    \/ (sync.pc = "idle" /\ SyncWrite)
    \/ \E since \in {-1, 1} : SyncStart("u1", "w1", "p1", since)
    \/ SyncFetch
    \/ SyncRefetch

SpecQuiet == Init /\ [][NextQuiet]_vars

\* issue 1 of p1 gets a label, the assignee u2 and a module; the module is
\* archived and u2's memberships are switched off and on, while u1 retrieves
\* and updates the issues and walks the sync listing
NextAnn ==
    \/ \E id \in Ids :
          Create("u1", "w1", "p1", [name |-> "a", is_draft |-> Absent], id, TRUE, FALSE)
    \/ \E l \in Labels : AddLabel(1, l)
    \/ Assign(1, "u2")
    \/ \E m \in Modules : AddToModule(1, m)
    \/ \E m \in Modules : ArchiveModule(m)
    \/ \E p \in Projects, a \in BOOLEAN : SetActive("u2", p, a)
    \/ \E pk \in Ids : Retrieve("u1", "w1", "p1", pk, TRUE)
    \/ \E pk \in Ids :
          PartialUpdate("u1", "w1", "p1", pk, [name |-> "b", is_draft |-> Absent], TRUE)
    \/ SyncStart("u1", "w1", "p1", -1)
    \/ SyncFetch

SpecAnn == Init /\ [][NextAnn]_vars

\* the (user, project) pairs whose display properties are read
PropPairs == {<<"u1", "p1">>, <<"u2", "p2">>}

\* the pairs whose display properties are patched: u2 never reads on p1, so
\* that pair never has a record
PatchPairs == PropPairs \cup {<<"u2", "p1">>}

\* two GET requests run step by step (g2 always for u1 on p1) while the
\* properties are patched
NextProps ==
    \/ \E k \in PropPairs : PropsGetBegin("g1", k[1], WorkspaceOf(k[2]), k[2])
    \/ PropsGetBegin("g2", "u1", "w1", "p1")
    \/ \E g \in PropProcs : PropsGetCreate(g)
    \/ \E k \in PatchPairs, d \in PropPayloads :
          PropsPatch(k[1], WorkspaceOf(k[2]), k[2], d)

SpecProps == Init /\ [][NextProps]_vars

\* u1 and u2 create issues in p1, u2's role in p1 changes between member and
\* guest, and u2 reads p1 through every read endpoint
NextGuest ==
    \/ \E u \in Users, id \in Ids :
          Create(u, "w1", "p1", [name |-> "a", is_draft |-> Absent], id, TRUE, FALSE)
    \/ \E r \in {ROLE.MEMBER, ROLE.GUEST} : ChangeRole(r)
    \/ List("u2", "w1", "p1", Absent, Absent, Absent, TRUE)
    \/ \E ids \in SUBSET Ids, fe \in BOOLEAN :
          ListEndpointGet("u2", "w1", "p1", [given |-> TRUE, ids |-> ids],
                          Absent, Absent, Absent, fe, TRUE)
    \/ \E pk \in Ids : Retrieve("u2", "w1", "p1", pk, TRUE)
    \/ SyncStart("u2", "w1", "p1", -1)
    \/ SyncFetch

SpecGuest == Init /\ [][NextGuest]_vars

\* ------------------------------------------------------------ properties
\* the calls that hand a task to the queue
DispatchCalls == {"issue_activity.delay", "recent_visited_task.delay"}

\* C4: a failure to dispatch the issue_activity task or the recent_visited_task
\* never reaches the caller: no list, retrieve, create, partial_update or
\* destroy request ends in an error raised by the dispatch.
C4_DispatchFailureInvisible ==
    resp.op \in {"list", "retrieve", "create", "partial_update", "destroy"}
        => ~(resp.status = 500 /\ resp.raised \in DispatchCalls)

\* C8: partial_update ends in NotFound (no visible issue with that id in the
\* project), ValidationError (invalid payload) or an empty 204; the first two
\* leave the store alone and dispatch nothing, the last dispatches exactly one
\* issue.activity.updated event that carries the row as it was before the save.
C8_UpdateOutcomes ==
    [][\A u \in Users, pk \in Ids, d \in UpdatePayloads, ok \in BOOLEAN :
        (PartialUpdate(u, "w1", "p1", pk, d, ok) /\ resp'.status # 403) =>
            \/ /\ resp'.status = 404
               /\ pk \notin GetQueryset(issues, "w1", "p1")
               /\ issues' = issues /\ tasks' = <<>>
            \/ /\ resp'.status = 400
               /\ pk \in GetQueryset(issues, "w1", "p1") /\ ~IsValidPartial(d)
               /\ issues' = issues /\ tasks' = <<>>
            \/ /\ resp'.status = 204 /\ resp'.body = {}
               /\ pk \in GetQueryset(issues, "w1", "p1") /\ IsValidPartial(d)
               /\ issues'[pk] = SavedRow(issues[pk], d, now)
               /\ Len(tasks') = 1
               /\ tasks'[1].type = "issue.activity.updated"
               /\ tasks'[1].issue_id = pk
               /\ tasks'[1].current_instance = <<issues[pk]>>]_vars

\* C9: a create request that stored its issue and dispatched the
\* issue.activity.created event answers 201 with the record of that issue,
\* never with an empty body or an error.
C9_CreatedIssueReturned ==
    (resp.op = "create" /\ tasks # <<>>)
        => (resp.status = 201 /\ resp.body = {resp.pk})

\* C1: a listing request (IssueViewSet.list or IssueListEndpoint.get) whose
\* group_by and sub_group_by name the same field fails with a 400 and returns
\* no page, whatever its other parameters are.
C1_SameGroupingRejected ==
    (/\ resp.op \in {"list", "get"}
     /\ resp.status \notin {403, 500}
     /\ Truthy(resp.gb) /\ Truthy(resp.sgb) /\ resp.gb = resp.sgb)
        => (resp.status = 400 /\ resp.body = {})

\* C10: when group_by equals sub_group_by the list request answers its
\* validation error before it queries the store and before it dispatches the
\* recently-visited task.
C10_RejectedBeforeQuerying ==
    (/\ resp.op = "list" /\ resp.status = 400
     /\ Truthy(resp.gb) /\ resp.gb = resp.sgb)
        => (resp.queries = <<>> /\ tasks = <<>>)

\* the ids a page of IssueViewSet.list shows
Shown(body) == {t[3] : t \in body}

\* C7: IssueViewSet.list shows an active role-5 member of the project only
\* the issues that member created, in flat, grouped and sub-grouped pages; any
\* other requester is shown every visible issue of the project that matches the
\* filters, whoever created it.
C7_GuestSeesOwn ==
    [][(/\ resp'.op = "list" /\ resp'.status = 200
        /\ List(resp'.user, resp'.slug, resp'.project, resp'.flt, resp'.gb,
                resp'.sgb, TRUE))
        => LET u == resp'.user
               all == {i \in DOMAIN issues :
                          /\ ~issues[i].deleted /\ ~issues[i].is_draft
                          /\ issues[i].project = resp'.project
                          /\ (resp'.flt = Absent \/ issues[i].created_by = resp'.flt)}
               guest == \E m \in members :
                            /\ m.member = u /\ m.project = resp'.project
                            /\ m.role = 5 /\ m.is_active
           IN  IF guest
                 THEN Shown(resp'.body) = {i \in all : issues[i].created_by = u}
                 ELSE Shown(resp'.body) = all]_vars

\* a guest with an issue of their own is shown it, and not the one u1 created
C7_Witness ==
    /\ resp.op = "list" /\ resp.status = 200 /\ resp.user = "u2"
    /\ [member |-> "u2", project |-> "p1", role |-> 5, is_active |-> TRUE] \in members
    /\ Shown(resp.body) # {}
    /\ \E i \in DOMAIN issues :
          /\ Visible(issues[i]) /\ issues[i].project = "p1"
          /\ issues[i].created_by = "u1" /\ i \notin Shown(resp.body)
    /\ resp.flt = Absent /\ resp.gb = "created_by" /\ resp.sgb = "project_id"

\* C2: a bulk delete whose issue_ids is empty or absent ends in a 400 at its
\* validation: it never reaches the count or the delete, so it removes nothing.
C2_EmptyBulkRejected ==
    \A b \in BulkProcs :
        (bd[b].pc # "idle" /\ bd[b].ids = {} /\ bd[b].status # 403)
            => (bd[b].pc = "done" /\ bd[b].status = 400 /\ bd[b].target = {})

\* one request with an empty issue_ids and one without issue_ids, both
\* answered 400 while the project holds a visible issue
C2_Witness ==
    /\ bd["b1"].pc = "done" /\ bd["b1"].status = 400 /\ bd["b1"].given
    /\ bd["b2"].pc = "done" /\ bd["b2"].status = 400 /\ ~bd["b2"].given
    /\ GetQueryset(issues, "w1", "p1") # {}

SyncFiltered ==
    {i \in DOMAIN issues :
        /\ ~issues[i].deleted /\ ~issues[i].is_draft
        /\ issues[i].project = sync.project
        /\ (sync.since = -1 \/ issues[i].updated_at >= sync.since)}

C11_GetAppliesFilters ==
    (resp.op = "get" /\ resp.status = 200)
        => \A i \in resp.body :
              /\ i \in GetQueryset(issues, resp.slug, resp.project)
              /\ Matches(issues[i], resp.flt)

\* no value occurs twice in an array
DuplicateFree(arr) == \A j, k \in DOMAIN arr : j # k => arr[j] # arr[k]

\* what annotations attached to issue i of project p have to satisfy in the
\* current store
AnnotationsSound(ann, i, p) ==
    /\ DuplicateFree(ann.label_ids)
    /\ DuplicateFree(ann.assignee_ids)
    /\ DuplicateFree(ann.module_ids)
    /\ \A k \in DOMAIN ann.label_ids : ann.label_ids[k] \in rel.labels[i]
    /\ \A k \in DOMAIN ann.assignee_ids :
          /\ ann.assignee_ids[k] \in rel.assignees[i]
          /\ \E m \in members : /\ m.member = ann.assignee_ids[k]
                                /\ m.project = p /\ m.is_active
    /\ \A k \in DOMAIN ann.module_ids :
          ann.module_ids[k] \in rel.modules[i] \ rel.archived

\* C12: the annotations retrieve, partial_update and the paginated sync
\* listing attach to an issue are arrays (empty when there is nothing to
\* aggregate) without duplicates; assignee_ids holds only assignees that are
\* active members of the issue's project at that moment, and module_ids only
\* modules that are not archived.
C12_AnnotationsSound ==
    [][/\ \A pk \in Ids :
             (Retrieve("u1", "w1", "p1", pk, TRUE) /\ resp'.status = 200)
                 => AnnotationsSound(resp'.ann, pk, "p1")
       /\ \A pk \in Ids :
             (/\ PartialUpdate("u1", "w1", "p1", pk,
                               [name |-> "b", is_draft |-> Absent], TRUE)
              /\ resp'.status = 204)
                 => AnnotationsSound(resp'.ann, pk, "p1")
       /\ SyncFetch =>
             \A k \in DOMAIN sync'.ann :
                 AnnotationsSound(sync'.ann[k], sync'.last[2][k][1], sync.project)]_vars

\* C13: the count a successful bulk delete reports is the number of issues it
\* removed; the issues it removed are exactly the visible issues of its
\* workspace and project whose ids were requested, and every other issue is
\* left as it was, whatever creates, deletes and bulk deletes ran between its
\* count and its delete.
C13_BulkCountExact ==
    [][\A b \in BulkProcs :
          BulkDelete(b) =>
              LET removed == {i \in DOMAIN issues :
                                 ~issues[i].deleted /\ issues'[i].deleted}
              IN  /\ bd'[b].status = 200
                  /\ bd[b].total = Cardinality(removed)
                  /\ removed = {i \in DOMAIN issues :
                                   /\ ~issues[i].deleted /\ ~issues[i].is_draft
                                   /\ issues[i].project = bd[b].project
                                   /\ WorkspaceOf(issues[i].project) = bd[b].slug
                                   /\ i \in bd[b].ids}
                  /\ \A i \in DOMAIN issues \ removed : issues'[i] = issues[i]]_vars

\* the fields a patch may replace
PropFields == {"filters", "display_filters", "display_properties"}

Disclosed(r) == IF r.op = "list" THEN Shown(r.body) ELSE r.body

\* C15: a read request of an active role-5 member of the project, through
\* IssueViewSet.list, IssueViewSet.retrieve, IssueListEndpoint.get or
\* IssuePaginatedViewSet.list, returns no issue that member did not create.
C15_GuestReadsOwnOnly ==
    [][/\ (/\ resp'.op \in {"list", "retrieve", "get"} /\ resp'.status = 200
           /\ UNCHANGED <<issues, members, sync>>
           /\ IsGuest(resp'.user, resp'.slug, resp'.project))
              => \A i \in Disclosed(resp') : issues[i].created_by = resp'.user
       /\ (SyncFetch /\ IsGuest(sync.user, sync.slug, sync.project))
              => \A k \in DOMAIN sync'.last[2] :
                    issues[sync'.last[2][k][1]].created_by = sync.user]_vars
====
